---------------------------- MODULE Spec2Model ----------------------------
(***************************************************************************)
(* django-app-lti: the LTI launch view and the tool-configuration view     *)
(* (django_app_lti/views.py).                                              *)
(*                                                                         *)
(* A deployment routes 'launch' to LTILaunchView or to a subclass that     *)
(* overrides hook_process_post (the extension point the class documents).  *)
(* Django builds one view instance per request; requests are served by a   *)
(* fixed set of workers that interleave at the granularity of the hook     *)
(* calls of LTILaunchView.post.  The entity store (LTIResource, LTICourse, *)
(* LTICourseUser rows) and the per-user session are shared.                *)
(*                                                                         *)
(* Spec is the launch endpoint; SpecConfig is the 'config' endpoint        *)
(* (LTIToolConfigView), which reads only LTI_SETUP and the request.        *)
(***************************************************************************)
EXTENDS Naturals, Sequences, FiniteSets

\* ------------------------------------------------------------------ bounds
\* Total number of requests dispatched in one behaviour.
MaxRequests == 3

\* ------------------------------------------------------------- value sets
\* The value None of Python, for a string and for an object reference.
None == "None"

Workers == {1, 2}
Users == {"u1", "u2"}
ConsumerKeys == {None, "k1"}
ResourceLinkIds == {None, "r1", "r2"}
RolesValues == {None, "", "Learner"}
Methods == {"GET", "POST"}
\* The class the URLconf routes 'launch' to.
ViewClasses == {"LTILaunchView", "Subclass"}

\* request.POST of a launch: the three fields the view reads that decide its
\* control flow; None is an absent field (what .get() returns for it).
PostData ==
    [oauth_consumer_key : ConsumerKeys, resource_link_id : ResourceLinkIds,
     roles : RolesValues]

EmptyPost == [oauth_consumer_key |-> None, resource_link_id |-> None, roles |-> None]

\* self.lti_resource = None
NoResource == [id |-> 0, consumer_key |-> None, resource_link_id |-> None, course |-> 0]

\* No response produced yet.
NoResponse == [kind |-> "none", status |-> 0, content |-> "", course_id |-> 0, exc |-> ""]

\* HttpResponse(content, content_type='text/html', status=status)
HttpResponse(content, status) ==
    [kind |-> "HttpResponse", status |-> status, content |-> content,
     course_id |-> 0, exc |-> ""]

\* redirect(reverse(LAUNCH_REDIRECT_URL, kwargs={"course_id": course_id}))
redirect(course_id) ==
    [kind |-> "redirect", status |-> 302, content |-> "", course_id |-> course_id,
     exc |-> ""]

\* An exception leaving post(): Django answers it with its error response.
Raised(exc) ==
    [kind |-> "error", status |-> 500, content |-> "", course_id |-> 0, exc |-> exc]

\* The order in which post() calls the hooks.
HookOrder ==
    <<"hook_before_post", "hook_process_post", "hook_after_post", "hook_get_redirect">>

\* ------------------------------------------------------------ entity store
\* Rows present when the deployment starts serving: the tables outlive the
\* process.  Each fixture satisfies the data model's uniqueness rules.
StoreFixtures ==
    { [courses |-> {}, resources |-> {}, memberships |-> {}],
      [courses |-> {1},
       resources |-> {[id |-> 1, consumer_key |-> "k1", resource_link_id |-> "r1",
                       course |-> 1]},
       memberships |-> {[id |-> 1, user |-> "u1", course |-> 1, roles |-> "Instructor"]}],
      [courses |-> {1, 2},
       resources |-> {[id |-> 1, consumer_key |-> "k1", resource_link_id |-> "r1",
                       course |-> 1],
                      [id |-> 2, consumer_key |-> "k1", resource_link_id |-> "r2",
                       course |-> 2]},
       memberships |-> {[id |-> 1, user |-> "u1", course |-> 1, roles |-> "Instructor"],
                        [id |-> 2, user |-> "u2", course |-> 1, roles |-> "Learner"]}] }

VARIABLES
    viewClass,     \* the class routed at 'launch'
    courses,       \* LTICourse rows (ids)
    resources,     \* LTIResource rows
    memberships,   \* LTICourseUser rows
    session,       \* request.session['course_id'] of each user's session
    view,          \* per worker: the request in flight and its view instance
    served,        \* requests dispatched so far
    LTI_SETUP,     \* settings.LTI_SETUP, read when the module is imported
    configView     \* the tool-configuration request in flight

vars == <<viewClass, courses, resources, memberships, session, view, served,
          LTI_SETUP, configView>>
store == <<courses, resources, memberships>>

\* A worker with no request in flight.
IdleView ==
    [pc |-> "idle", method |-> "GET", user |-> "u1", POST |-> EmptyPost,
     lti_resource |-> NoResource, response |-> NoResponse, called |-> <<>>]

\* LTIResource.hasCourse(consumer_key, resource_link_id)
hasCourse(consumer_key, resource_link_id) ==
    \E r \in resources :
        r.consumer_key = consumer_key /\ r.resource_link_id = resource_link_id

\* LTIResource.getResource(consumer_key, resource_link_id)
getResource(consumer_key, resource_link_id) ==
    CHOOSE r \in resources :
        r.consumer_key = consumer_key /\ r.resource_link_id = resource_link_id

\* LTICourseUser.hasCourseUser(user, course)
hasCourseUser(user, course) ==
    \E m \in memberships : m.user = user /\ m.course = course

\* ------------------------------------------------------ tool configuration
Hosts == {"example.edu", "lms.example.org", "localhost:8000"}

\* The vendor extension maps a deployment may configure:
\* vendor key -> parameter name -> value, as <<key, name, value>> triples.
ExtensionParameters ==
    { {},
      {<<"canvas.instructure.com", "privacy_level", "public">>},
      {<<"canvas.instructure.com", "privacy_level", "public">>,
       <<"canvas.instructure.com", "domain", "example.edu">>} }

\* The LTI_SETUP dictionaries considered; None is a key that is not set.
Setups ==
    [LTI_LAUNCH_URL : {None, "lti:index"}, TOOL_TITLE : {"T", "My tool"},
     TOOL_DESCRIPTION : {"D"}, EXTENSION_PARAMETERS : ExtensionParameters]

DefaultSetup ==
    [LTI_LAUNCH_URL |-> None, TOOL_TITLE |-> "T", TOOL_DESCRIPTION |-> "D",
     EXTENSION_PARAMETERS |-> {}]

\* ToolConfig() not built yet.
NoToolConfig ==
    [title |-> "", description |-> "", launch_url |-> "", secure_launch_url |-> "",
     ext_params |-> {}]

\* No tool-configuration request in flight.
IdleConfigView ==
    [pc |-> "idle", is_secure |-> FALSE, host |-> "example.edu",
     lti_tool_config |-> NoToolConfig, status |-> 0, content_type |-> ""]

\* reverse(name) under the URLconf of the package.
reverse(name) ==
    CASE name = "lti:index" -> "/"
      [] name = "lti:launch" -> "/launch"
      [] name = "lti:config" -> "/config"
      [] name = "lti:logout" -> "/logout"
      [] OTHER -> "/logged-out"

\* LAUNCH_URL = LTI_SETUP.get('LTI_LAUNCH_URL', 'lti:launch')
LAUNCH_URL ==
    IF LTI_SETUP.LTI_LAUNCH_URL = None THEN "lti:launch" ELSE LTI_SETUP.LTI_LAUNCH_URL

\* Faulty variant of get_launch_url: the scheme is always http.  C16 fails on it.
get_launch_url_always_http(request) ==
    ("http://" \o request.host) \o reverse(LAUNCH_URL)

\* LTIToolConfigView.get_launch_url
get_launch_url(request) ==
    LET host == IF request.is_secure
                THEN "https://" \o request.host
                ELSE "http://" \o request.host
    IN  host \o reverse(LAUNCH_URL)

\* LTIToolConfigView.get_tool_config
get_tool_config(request) ==
    LET launch_url == get_launch_url(request)
    IN  [title |-> LTI_SETUP.TOOL_TITLE,
         description |-> LTI_SETUP.TOOL_DESCRIPTION,
         launch_url |-> launch_url,
         secure_launch_url |-> launch_url,
         ext_params |-> {}]

\* ------------------------------------------------------------------- Init
Init ==
    /\ viewClass \in ViewClasses
    /\ \E s \in StoreFixtures :
          /\ courses = s.courses
          /\ resources = s.resources
          /\ memberships = s.memberships
    /\ session = [u \in Users |-> 0]
    /\ view = [w \in Workers |-> IdleView]
    /\ served = 0
    /\ LTI_SETUP = DefaultSetup
    /\ configView = IdleConfigView

\* ---------------------------------------------------------------- actions
\* A request arrives: as_view() builds a fresh view instance (__init__ sets
\* lti_resource to None) and dispatch() routes it by method.
Dispatch(w) ==
    /\ view[w].pc = "idle"
    /\ served < MaxRequests
    /\ \E method \in Methods, user \in Users, post \in PostData :
          /\ method = "GET" => post = EmptyPost
          /\ view' = [view EXCEPT ![w] =
                 [pc |-> IF method = "GET" THEN "get" ELSE "hook_before_post",
                  method |-> method, user |-> user, POST |-> post,
                  lti_resource |-> NoResource, response |-> NoResponse,
                  called |-> <<>>]]
    /\ served' = served + 1
    /\ UNCHANGED <<LTI_SETUP, configView, viewClass, courses, resources, memberships, session>>

\* Faulty variant of get: the rejection also writes the session.  C8 fails
\* on it.
Get_touching_session(w) ==
    /\ view[w].pc = "get"
    /\ view' = [view EXCEPT ![w].pc = "done",
                            ![w].response = HttpResponse("Invalid LTI launch request.", 200)]
    /\ session' = [session EXCEPT ![view[w].user] = 1]
    /\ UNCHANGED <<LTI_SETUP, configView, viewClass, courses, resources, memberships, served>>

\* LTILaunchView.get
Get(w) ==
    /\ view[w].pc = "get"
    /\ view' = [view EXCEPT ![w].pc = "done",
                            ![w].response = HttpResponse("Invalid LTI launch request.", 200)]
    /\ UNCHANGED <<LTI_SETUP, configView, viewClass, courses, resources, memberships, session, served>>

\* Faulty variant of post(): the call of hook_process_post is left out.  C9
\* fails on it.
HookBeforePost_then_after(w) ==
    /\ view[w].pc = "hook_before_post"
    /\ view' = [view EXCEPT ![w].pc = "hook_after_post",
                            ![w].called = Append(@, "hook_before_post")]
    /\ UNCHANGED <<LTI_SETUP, configView, viewClass, courses, resources, memberships, session, served>>

\* post(): self.hook_before_post(request); the default hook returns self.
HookBeforePost(w) ==
    /\ view[w].pc = "hook_before_post"
    /\ view' = [view EXCEPT ![w].pc = "hook_process_post",
                            ![w].called = Append(@, "hook_before_post")]
    /\ UNCHANGED <<LTI_SETUP, configView, viewClass, courses, resources, memberships, session, served>>

\* The smallest id not yet used by a row.
NextId(ids) == IF ids = {} THEN 1 ELSE 1 + CHOOSE n \in ids : \A m \in ids : m <= n

\* _process_post as it would run with `request` bound, parameterised by
\* whether the two lookups are made before the creates.  It serves only to
\* build the two faulty variants below, on which C1 and C6 fail.
Reconcile(w, lookupResource, lookupUser) ==
    LET p == view[w].POST
        u == view[w].user
        found == lookupResource /\ hasCourse(p.oauth_consumer_key, p.resource_link_id)
        newCourse == NextId(courses)
        res == IF found
               THEN getResource(p.oauth_consumer_key, p.resource_link_id)
               ELSE [id |-> NextId({r.id : r \in resources}),
                     consumer_key |-> p.oauth_consumer_key,
                     resource_link_id |-> p.resource_link_id,
                     course |-> newCourse]
        launch_roles == IF p.roles = None THEN "" ELSE p.roles
        known == lookupUser /\ hasCourseUser(u, res.course)
    IN  /\ courses' = IF found THEN courses ELSE courses \cup {newCourse}
        /\ resources' = resources \cup {res}
        /\ memberships' =
              IF known
              THEN {IF m.user = u /\ m.course = res.course
                    THEN [m EXCEPT !.roles = launch_roles] ELSE m : m \in memberships}
              ELSE memberships \cup
                   {[id |-> NextId({m.id : m \in memberships}), user |-> u,
                     course |-> res.course, roles |-> launch_roles]}
        /\ view' = [view EXCEPT ![w].pc = "hook_after_post",
                                ![w].lti_resource = res,
                                ![w].called = Append(@, "hook_process_post")]

\* Faulty variant: `request` bound, setupCourse called without asking hasCourse.
_process_post_without_hasCourse(w) == Reconcile(w, FALSE, TRUE)

\* Faulty variant: `request` bound, createCourseUser called without asking hasCourseUser.
_process_post_without_hasCourseUser(w) == Reconcile(w, TRUE, FALSE)

\* Faulty variant: `request` bound, and the launch fails between saving the
\* new Course and saving the Resource bound to it.  C13 fails on it.
_process_post_partial_create(w) ==
    /\ courses' = courses \cup {NextId(courses)}
    /\ UNCHANGED <<resources, memberships>>
    /\ view' = [view EXCEPT ![w].pc = "done",
                            ![w].response = Raised("IntegrityError"),
                            ![w].called = Append(@, "hook_process_post")]

\* Faulty variant: `request` bound, and a repeat launch binds the Resource it
\* finds to a newly created Course.  C18 fails on it.
_process_post_rebinding(w) ==
    LET p == view[w].POST
        newCourse == NextId(courses)
        found == {r \in resources : /\ r.consumer_key = p.oauth_consumer_key
                                    /\ r.resource_link_id = p.resource_link_id}
    IN  /\ courses' = courses \cup {newCourse}
        /\ resources' = {IF r \in found THEN [r EXCEPT !.course = newCourse] ELSE r :
                           r \in resources}
        /\ UNCHANGED memberships
        /\ view' = [view EXCEPT ![w].pc = "hook_after_post",
                                ![w].called = Append(@, "hook_process_post")]

\* Faulty variant: `request` bound, and the roles of the launch are written
\* to every membership of the resolved course, whoever the user.  C19 fails
\* on it.
_process_post_updating_all_users(w) ==
    LET p == view[w].POST
        launch_roles == IF p.roles = None THEN "" ELSE p.roles
        found == hasCourse(p.oauth_consumer_key, p.resource_link_id)
        res == IF found THEN getResource(p.oauth_consumer_key, p.resource_link_id)
               ELSE NoResource
    IN  /\ UNCHANGED <<courses, resources>>
        /\ memberships' = {IF m.course = res.course
                           THEN [m EXCEPT !.roles = launch_roles] ELSE m :
                             m \in memberships}
        /\ view' = [view EXCEPT ![w].pc = "hook_after_post",
                                ![w].lti_resource = res,
                                ![w].called = Append(@, "hook_process_post")]

\* _process_post(self): the method has no `request` parameter and the module
\* binds no global of that name, so evaluating request.POST for the first
\* entry of the launch dict raises NameError before any model is touched.
_process_post(w) ==
    /\ view' = [view EXCEPT ![w].pc = "done",
                            ![w].response = Raised("NameError"),
                            ![w].called = Append(@, "hook_process_post")]
    /\ UNCHANGED <<courses, resources, memberships>>

\* Faulty variant of post(): the error of hook_process_post is recorded but
\* the later stages are still called.  C20 fails on it.
HookProcessPost_carrying_on(w) ==
    /\ view[w].pc = "hook_process_post"
    /\ viewClass = "LTILaunchView"
    /\ view' = [view EXCEPT ![w].pc = "hook_after_post",
                            ![w].response = Raised("NameError"),
                            ![w].called = Append(@, "hook_process_post")]
    /\ UNCHANGED <<LTI_SETUP, configView, viewClass, courses, resources, memberships,
                   session, served>>

\* post(): self.hook_process_post(request), the default hook.
HookProcessPost(w) ==
    /\ view[w].pc = "hook_process_post"
    /\ viewClass = "LTILaunchView"
    /\ _process_post(w)
    /\ UNCHANGED <<LTI_SETUP, configView, viewClass, session, served>>

\* post(): self.hook_process_post(request), overridden by a subclass that
\* does its own lookup: it returns with the resolved context left unset or
\* set to a Resource of the store.
OverriddenProcessPost(w) ==
    /\ view[w].pc = "hook_process_post"
    /\ viewClass = "Subclass"
    /\ \E r \in resources \cup {NoResource} :
          view' = [view EXCEPT ![w].pc = "hook_after_post",
                               ![w].lti_resource = r,
                               ![w].called = Append(@, "hook_process_post")]
    /\ UNCHANGED <<LTI_SETUP, configView, viewClass, courses, resources, memberships, session, served>>

\* Faulty variant of hook_after_post: the session is never written.  C17
\* fails on it.
HookAfterPost_never_writes(w) ==
    /\ view[w].pc = "hook_after_post"
    /\ view' = [view EXCEPT ![w].pc = "hook_get_redirect",
                            ![w].called = Append(@, "hook_after_post")]
    /\ UNCHANGED <<LTI_SETUP, configView, viewClass, courses, resources, memberships,
                   session, served>>

\* post(): self.hook_after_post(request)
HookAfterPost(w) ==
    /\ view[w].pc = "hook_after_post"
    /\ session' = IF view[w].lti_resource # NoResource
                  THEN [session EXCEPT ![view[w].user] = view[w].lti_resource.course]
                  ELSE session
    /\ view' = [view EXCEPT ![w].pc = "hook_get_redirect",
                            ![w].called = Append(@, "hook_after_post")]
    /\ UNCHANGED <<LTI_SETUP, configView, viewClass, courses, resources, memberships, served>>

\* Faulty variant of hook_get_redirect: a missing context is answered with a
\* redirect that carries no course.  C11 fails on it.
HookGetRedirect_without_context(w) ==
    /\ view[w].pc = "hook_get_redirect"
    /\ view' = [view EXCEPT ![w].pc = "done",
                            ![w].called = Append(@, "hook_get_redirect"),
                            ![w].response = redirect(view[w].lti_resource.course)]
    /\ UNCHANGED <<LTI_SETUP, configView, viewClass, courses, resources, memberships, session, served>>

\* post(): redirect = self.hook_get_redirect(); return redirect.
\* With self.lti_resource None, self.lti_resource.course raises AttributeError.
HookGetRedirect(w) ==
    /\ view[w].pc = "hook_get_redirect"
    /\ view' = [view EXCEPT ![w].pc = "done",
                            ![w].called = Append(@, "hook_get_redirect"),
                            ![w].response =
                                IF view[w].lti_resource = NoResource
                                THEN Raised("AttributeError")
                                ELSE redirect(view[w].lti_resource.course)]
    /\ UNCHANGED <<LTI_SETUP, configView, viewClass, courses, resources, memberships, session, served>>

\* The response (or the error) is handed to the client; the view instance is
\* dropped and the worker is free again.
Respond(w) ==
    /\ view[w].pc = "done"
    /\ view' = [view EXCEPT ![w] = IdleView]
    /\ UNCHANGED <<LTI_SETUP, configView, viewClass, courses, resources, memberships, session, served>>

\* A GET of 'config' arrives.
ConfigRequest ==
    /\ configView.pc = "idle"
    /\ \E is_secure \in BOOLEAN, host \in Hosts :
          configView' = [IdleConfigView EXCEPT !.pc = "get_tool_config",
                                               !.is_secure = is_secure,
                                               !.host = host]
    /\ UNCHANGED <<LTI_SETUP, viewClass, courses, resources, memberships, session,
                   view, served>>

\* LTIToolConfigView.get: lti_tool_config = self.get_tool_config(request)
ConfigGetToolConfig ==
    /\ configView.pc = "get_tool_config"
    /\ configView' = [configView EXCEPT !.pc = "set_ext_params",
                                        !.lti_tool_config = get_tool_config(configView)]
    /\ UNCHANGED <<LTI_SETUP, viewClass, courses, resources, memberships, session,
                   view, served>>

\* LTIToolConfigView.get: self.set_ext_params(lti_tool_config), then the
\* response HttpResponse(lti_tool_config.to_xml(), content_type='text/xml',
\* status=200).
ConfigSetExtParams ==
    /\ configView.pc = "set_ext_params"
    /\ configView' = [configView EXCEPT
                         !.pc = "done",
                         !.lti_tool_config.ext_params = LTI_SETUP.EXTENSION_PARAMETERS,
                         !.status = 200,
                         !.content_type = "text/xml"]
    /\ UNCHANGED <<LTI_SETUP, viewClass, courses, resources, memberships, session,
                   view, served>>

\* The XML is handed to the client.
ConfigRespond ==
    /\ configView.pc = "done"
    /\ configView' = IdleConfigView
    /\ UNCHANGED <<LTI_SETUP, viewClass, courses, resources, memberships, session,
                   view, served>>

Next ==
    \E w \in Workers :
        \/ Dispatch(w)
        \/ Get(w)
        \/ HookBeforePost(w)
        \/ HookProcessPost(w)
        \/ OverriddenProcessPost(w)
        \/ HookAfterPost(w)
        \/ HookGetRedirect(w)
        \/ Respond(w)

Spec == Init /\ [][Next]_vars

\* The tool-configuration endpoint on its own, for every LTI_SETUP considered.
InitConfig ==
    /\ viewClass = "LTILaunchView"
    /\ courses = {} /\ resources = {} /\ memberships = {}
    /\ session = [u \in Users |-> 0]
    /\ view = [w \in Workers |-> IdleView]
    /\ served = 0
    /\ LTI_SETUP \in Setups
    /\ configView = IdleConfigView

NextConfig ==
    \/ ConfigRequest
    \/ ConfigGetToolConfig
    \/ ConfigSetExtParams
    \/ ConfigRespond

SpecConfig == InitConfig /\ [][NextConfig]_vars

\* ----------------------------------------------------------------- claims
\* The request of worker w is a launch handled by the default pipeline.
DefaultLaunch(w) == viewClass = "LTILaunchView" /\ view[w].method = "POST"

\* Both required launch fields are present in the POST of worker w.
HasKey(w) ==
    view[w].POST.oauth_consumer_key # None /\ view[w].POST.resource_link_id # None

\* The Resources of the store with the lookup key of worker w's launch.
Matching(w, rs) ==
    {r \in rs : /\ r.consumer_key = view[w].POST.oauth_consumer_key
                /\ r.resource_link_id = view[w].POST.resource_link_id}

\* This step is worker w's default hook_process_post call.
ProcessStep(w) ==
    /\ DefaultLaunch(w)
    /\ view[w].pc = "hook_process_post"
    /\ view'[w].pc # "hook_process_post"

\* roles = request.POST.get('roles', '')
LaunchRoles(w) == IF view[w].POST.roles = None THEN "" ELSE view[w].POST.roles

\* C1: in every reachable state there is at most one Resource for each
\* (consumer key, resource link id) pair.
C1_OneResourcePerKey ==
    \A r1, r2 \in resources :
        (r1.consumer_key = r2.consumer_key /\ r1.resource_link_id = r2.resource_link_id)
            => r1 = r2

\* C1 witness: two default launches for the key of an existing Resource have
\* both been processed.
C1_Witness ==
    \E w1, w2 \in Workers :
        /\ w1 # w2 /\ DefaultLaunch(w1) /\ DefaultLaunch(w2)
        /\ view[w1].pc = "done" /\ view[w2].pc = "done"
        /\ view[w1].POST = view[w2].POST
        /\ Matching(w1, resources) # {}

\* C2: when two default launches with the same (consumer_key, resource_link_id)
\* have both been processed while in flight together, the store holds exactly
\* one Resource, bound to one Course, for that pair.  (For a pair seen before
\* the launches this is C1 and C5; the claim's case is the unseen pair.)
C2_ConcurrentFirstLaunches ==
    \A w1, w2 \in Workers :
        ( /\ w1 # w2 /\ DefaultLaunch(w1) /\ DefaultLaunch(w2)
          /\ HasKey(w1)
          /\ view[w1].POST.oauth_consumer_key = view[w2].POST.oauth_consumer_key
          /\ view[w1].POST.resource_link_id = view[w2].POST.resource_link_id
          /\ view[w1].pc = "done" /\ view[w2].pc = "done" )
        => /\ Cardinality(Matching(w1, resources)) = 1
           /\ \A r \in Matching(w1, resources) : r.course \in courses

\* C3: a default launch whose POST lacks oauth_consumer_key or resource_link_id
\* fails in the process stage with a MalformedLaunch error and leaves the
\* three tables as they were.
C3_MalformedLaunchRejected ==
    [][\A w \in Workers :
          (ProcessStep(w) /\ ~HasKey(w))
          => /\ view'[w].response.kind = "error"
             /\ view'[w].response.exc = "MalformedLaunch"
             /\ store' = store]_vars

\* C4: a default launch with both key fields whose pair matches no Resource
\* creates exactly one Resource and exactly one Course; the new Resource
\* carries the lookup key and references the new Course.
C4_FirstLaunchCreates ==
    [][\A w \in Workers :
          (ProcessStep(w) /\ HasKey(w) /\ Matching(w, resources) = {})
          => \E r \in resources' \ resources :
                /\ resources' = resources \cup {r}
                /\ r \in Matching(w, resources')
                /\ r.course \notin courses
                /\ courses' = courses \cup {r.course}]_vars

\* C5: a default launch whose pair matches an existing Resource leaves the
\* Resources and Courses unchanged and resolves to the Course that Resource
\* was bound to by the first launch for the pair.
C5_RepeatLaunchReuses ==
    [][\A w \in Workers :
          (ProcessStep(w) /\ Matching(w, resources) # {})
          => /\ resources' = resources
             /\ courses' = courses
             /\ view'[w].lti_resource \in Matching(w, resources)]_vars

\* C6: in every reachable state there is at most one CourseMembership for
\* each (user, course) pair.
C6_OneMembershipPerUserCourse ==
    \A m1, m2 \in memberships :
        (m1.user = m2.user /\ m1.course = m2.course) => m1 = m2

\* C6 witness: a default launch by a user who already has a membership in the
\* course of the launch's Resource has been processed.
C6_Witness ==
    \E w \in Workers :
        /\ DefaultLaunch(w) /\ view[w].pc = "done"
        /\ \E r \in Matching(w, resources) : hasCourseUser(view[w].user, r.course)

\* C7: when the process stage of a default launch by user u ends, the
\* membership of u in the resolved course carries exactly the roles of that
\* launch (replaced, not merged with what it held before).
C7_RolesReplaced ==
    [][\A w \in Workers :
          ProcessStep(w)
          => \E m \in memberships' :
                /\ m.user = view[w].user
                /\ m.course = view'[w].lti_resource.course
                /\ m.roles = LaunchRoles(w)]_vars

\* C8: a GET changes nothing in the three tables or the session, runs no
\* stage of the launch pipeline, resolves no context, and answers status 200
\* with the text 'Invalid LTI launch request.'.
C8_GetIsInert ==
    [][\A w \in Workers :
          (view[w].pc = "get" /\ view'[w].pc # "get")
          => /\ store' = store
             /\ session' = session
             /\ view'[w].lti_resource = NoResource
             /\ view'[w].called = <<>>
             /\ view'[w].response.kind = "HttpResponse"
             /\ view'[w].response.status = 200
             /\ view'[w].response.content = "Invalid LTI launch request."]_vars

\* C8 witness: a GET has been answered while the store holds rows and a
\* session holds a course id.
C8_Witness ==
    \E w \in Workers :
        /\ view[w].method = "GET" /\ view[w].pc = "done"
        /\ view[w].response.status = 200
        /\ resources # {} /\ memberships # {}
        /\ \E u \in Users : session[u] # 0

\* The first n hooks in the order post() calls them.
Prefix(n) == SubSeq(HookOrder, 1, n)

C10_DefaultLaunchRedirects ==
    \A w \in Workers :
        (DefaultLaunch(w) /\ HasKey(w) /\ view[w].pc = "done")
        => /\ view[w].lti_resource \in Matching(w, resources)
           /\ view[w].response.kind = "redirect"
           /\ view[w].response.course_id = view[w].lti_resource.course

\* C11: when hook_get_redirect runs while the view has no resolved context
\* (lti_resource is None), it raises (AttributeError on None, the NoContext
\* failure) and the POST ends with that error, not with a redirect.
C11_NoContextFails ==
    [][\A w \in Workers :
          ( /\ view[w].pc = "hook_get_redirect"
            /\ view'[w].pc # "hook_get_redirect"
            /\ view[w].lti_resource = NoResource )
          => /\ view'[w].pc = "done"
             /\ view'[w].response.kind = "error"
             /\ view'[w].response.exc = "AttributeError"
             /\ view'[w].response.course_id = 0]_vars

\* C11 witness: an overridden hook_process_post left the context unset and
\* hook_get_redirect has run and failed.
C11_Witness ==
    \E w \in Workers :
        /\ viewClass = "Subclass" /\ view[w].pc = "done"
        /\ view[w].lti_resource = NoResource
        /\ view[w].called = HookOrder
        /\ view[w].response.kind = "error"

\* C12: when two default launches by the same user with the same lookup key
\* have both been processed while in flight together, the store holds exactly
\* one CourseMembership of that user in the course of the launch's Resource.
C12_ConcurrentFirstMemberships ==
    \A w1, w2 \in Workers :
        ( /\ w1 # w2 /\ DefaultLaunch(w1) /\ DefaultLaunch(w2)
          /\ HasKey(w1)
          /\ view[w1].user = view[w2].user
          /\ view[w1].POST.oauth_consumer_key = view[w2].POST.oauth_consumer_key
          /\ view[w1].POST.resource_link_id = view[w2].POST.resource_link_id
          /\ view[w1].pc = "done" /\ view[w2].pc = "done" )
        => \E r \in Matching(w1, resources) :
              Cardinality({m \in memberships :
                              m.user = view[w1].user /\ m.course = r.course}) = 1

\* C13: in every reachable state, so at every point another request can read
\* the store, each Course has a Resource bound to it: a Course is never
\* visible without its Resource.
C13_NoCourseWithoutResource ==
    \A c \in courses : \E r \in resources : r.course = c

\* C13 witness: a default launch for a pair that matches no Resource has
\* been processed while another request is in flight.
C13_Witness ==
    \E w1, w2 \in Workers :
        /\ w1 # w2
        /\ DefaultLaunch(w1) /\ HasKey(w1) /\ view[w1].pc = "done"
        /\ Matching(w1, resources) = {}
        /\ courses # {}
        /\ view[w2].pc \notin {"idle", "done"}

\* C14: two default launches with the same lookup key that were in flight
\* together (the case in which one's create meets the other's record) both
\* end normally with a redirect; neither ends with an error.
C14_ConflictRecovered ==
    \A w1, w2 \in Workers :
        ( /\ w1 # w2 /\ DefaultLaunch(w1) /\ DefaultLaunch(w2)
          /\ HasKey(w1)
          /\ view[w1].user = view[w2].user
          /\ view[w1].POST.oauth_consumer_key = view[w2].POST.oauth_consumer_key
          /\ view[w1].POST.resource_link_id = view[w2].POST.resource_link_id
          /\ view[w1].pc = "done" /\ view[w2].pc = "done" )
        => /\ view[w1].response.kind = "redirect"
           /\ view[w2].response.kind = "redirect"

\* C15: a default launch whose roles field is absent or empty ends without an
\* error and leaves the launching user's membership in the resolved course
\* with the empty role string.
C15_EmptyRoles ==
    \A w \in Workers :
        (DefaultLaunch(w) /\ HasKey(w) /\ LaunchRoles(w) = "" /\ view[w].pc = "done")
        => /\ view[w].response.kind # "error"
           /\ \E m \in memberships :
                 /\ m.user = view[w].user
                 /\ m.course = view[w].lti_resource.course
                 /\ m.roles = ""

\* C16: the tool configuration built for a request has launch_url equal to
\* 'https://' + host + launch path when the request is secure and
\* 'http://' + host + launch path otherwise, and secure_launch_url equal to
\* launch_url; a secure request for example.edu with the launch path
\* '/launch' gives 'https://example.edu/launch'.
C16_LaunchUrl ==
    configView.pc \in {"set_ext_params", "done"} =>
        LET c == configView.lti_tool_config
            scheme == IF configView.is_secure THEN "https://" ELSE "http://"
            path == IF LTI_SETUP.LTI_LAUNCH_URL = None THEN "/launch" ELSE "/"
        IN  /\ c.launch_url = scheme \o (configView.host \o path)
            /\ c.secure_launch_url = c.launch_url
            /\ (configView.is_secure /\ configView.host = "example.edu"
                  /\ LTI_SETUP.LTI_LAUNCH_URL = None)
               => c.launch_url = "https://example.edu/launch"

\* C16 witness: a configuration has been built for a secure request for
\* example.edu and served.
C16_Witness ==
    /\ configView.pc = "done" /\ configView.is_secure
    /\ configView.host = "example.edu"
    /\ configView.lti_tool_config.launch_url = "https://example.edu/launch"
    /\ configView.lti_tool_config.secure_launch_url = "https://example.edu/launch"

\* C17: hook_after_post writes session['course_id'] exactly when the view has
\* a resolved context, and then writes the id of the resolved Resource's
\* Course into the launching user's session; without a resolved context the
\* session is left as it was.
C17_SessionCourseId ==
    [][\A w \in Workers :
          (view[w].pc = "hook_after_post" /\ view'[w].pc # "hook_after_post")
          => IF view[w].lti_resource = NoResource
             THEN session' = session
             ELSE /\ session'[view[w].user] = view[w].lti_resource.course
                  /\ view[w].lti_resource.course \in courses
                  /\ \A u \in Users \ {view[w].user} : session'[u] = session[u]]_vars

\* C17 witness: hook_after_post has run with a resolved context and the
\* session of the user holds that course id, while the other user's session
\* holds none.
C17_Witness ==
    \E w \in Workers :
        /\ view[w].pc = "hook_get_redirect"
        /\ view[w].lti_resource \in resources
        /\ session[view[w].user] = view[w].lti_resource.course
        /\ \E u \in Users : session[u] = 0

\* C18: no step of any launch changes the consumer key, the resource link id
\* or the course reference of an existing Resource, or removes it.
C18_ResourcePermanent ==
    [][\A r \in resources : r \in resources']_vars

\* C18 witness: two launches, one for the key of an existing Resource, have
\* been processed and the Resource is still bound to its Course.
C18_Witness ==
    \E w1, w2 \in Workers :
        /\ w1 # w2
        /\ view[w1].method = "POST" /\ view[w1].pc = "done"
        /\ view[w2].method = "POST" /\ view[w2].pc = "done"
        /\ view[w1].user # view[w2].user
        /\ \E r \in Matching(w1, resources) : r.id = 1 /\ r.course = 1

\* This step is worker w's hook_process_post call, default or overridden.
AnyProcessStep(w) ==
    /\ view[w].pc = "hook_process_post"
    /\ view'[w].pc # "hook_process_post"

\* C19: the process stage of a launch by user u that resolves to course c
\* leaves every CourseMembership other than the (u, c) one as it was, and
\* every Resource and Course outside the launch's lookup key as it was.
C19_OtherRowsUntouched ==
    [][\A w \in Workers :
          AnyProcessStep(w)
          => LET u == view[w].user
                 c == view'[w].lti_resource.course
             IN  /\ \A m \in memberships \cup memberships' :
                       (m.user # u \/ m.course # c)
                           => (m \in memberships /\ m \in memberships')
                 /\ \A r \in resources \cup resources' :
                       r \notin (Matching(w, resources) \cup Matching(w, resources'))
                           => (r \in resources /\ r \in resources')
                 /\ \A k \in courses \cup courses' :
                       k # c => (k \in courses /\ k \in courses')]_vars

\* C19 witness: the process stage of a launch has ended while the store holds
\* a membership of another user and a Resource with another key.
C19_Witness ==
    \E w \in Workers :
        /\ view[w].method = "POST"
        /\ Len(view[w].called) >= 2
        /\ Matching(w, resources) # {}
        /\ \E r \in resources : r \notin Matching(w, resources)
        /\ \E m \in memberships : m.user # view[w].user

\* C20: when hook_process_post raises, the POST ends at once with that error
\* and the session untouched; and a POST that has ended with an error takes
\* no further step (no later stage, no session write, no redirect) before
\* its error is handed to the caller.
C20_ErrorEndsPost ==
    [][\A w \in Workers :
          /\ ( /\ view[w].pc = "hook_process_post"
               /\ view'[w].response.kind = "error" )
             => /\ view'[w].pc = "done"
                /\ view'[w].called = Prefix(2)
                /\ view'[w].response.exc = "NameError"
                /\ session' = session
          /\ (view[w].response.kind = "error" /\ view'[w] # view[w])
             => (view'[w] = IdleView /\ session' = session)]_vars

\* C20 witness: a default POST has ended with the error of hook_process_post;
\* neither later stage was called and the user's session holds no course id.
C20_Witness ==
    \E w \in Workers :
        /\ DefaultLaunch(w) /\ view[w].pc = "done"
        /\ view[w].response.kind = "error"
        /\ view[w].response.exc = "NameError"
        /\ view[w].called = Prefix(2)
        /\ session[view[w].user] = 0

=============================================================================
